---- MODULE Spec2Model ----
(***************************************************************************)
(* The cross-language command bridge of polylog: the Tauri command layer   *)
(* (commands.rs), the interpreter bridge (python_bridge.rs) and the        *)
(* archived copies of run_simulation.  The external module polylog_core    *)
(* is opaque: whether it is importable, which attributes it has and what a *)
(* call does are chosen nondeterministically.                              *)
(***************************************************************************)
EXTENDS Integers, Sequences, FiniteSets, TLC

\* ---------------------------------------------------------------- bounds
NThreads == 2
MaxInvocations == 2

Threads == 1..NThreads
NoThread == 0

\* ------------------------------------------------------------ vocabulary
\* The commands src-tauri/src/main.rs registers with the shell.
Registered == {"run_simulation", "get_unicode_symbols", "launch_polyform"}

\* Payloads the shell may send (the two of the test stub).
Payloads == {"test_params", "invalid_params"}

\* Modules the embedded interpreter always has.
Builtins == {"sys"}

\* Attribute names polylog_core may or may not expose.
AttrNames == {"simulate", "get_unicode_symbols", "launch_polyform"}

\* Python objects a call may return, and exceptions it may raise.
NoObj == [kind |-> "none", v |-> ""]
PyObjects == {[kind |-> "str", v |-> "result"],
              [kind |-> "int", v |-> "42"]}
NoExc == [type |-> "", msg |-> ""]
Raised == {[type |-> "ValueError", msg |-> ""]}

\* What the opaque function does when called once.
NoOutcome == [tag |-> "none", obj |-> NoObj, exc |-> NoExc]
Outcomes == {[tag |-> "return", obj |-> o, exc |-> NoExc] : o \in PyObjects}
            \cup {[tag |-> "raise", obj |-> NoObj, exc |-> e] : e \in Raised}

\* ------------------------------------------------------- pyo3 primitives
\* PyResult<T>: Ok carries val, Err carries a PyErr.
PyOk(s) == [tag |-> "Ok", val |-> s, err |-> NoExc]
PyFail(e) == [tag |-> "Err", val |-> "", err |-> e]
NoPyResult == [tag |-> "None", val |-> "", err |-> NoExc]

\* Result<String, String> as the shell receives it.
Ok(s) == [tag |-> "Ok", v |-> s]
Err(s) == [tag |-> "Err", v |-> s]
NoResult == [tag |-> "None", v |-> ""]

ModuleNotFoundError(name) ==
    [type |-> "ModuleNotFoundError", msg |-> "No module named '" \o name \o "'"]
AttributeError(mod, name) ==
    [type |-> "AttributeError",
     msg |-> "module '" \o mod \o "' has no attribute '" \o name \o "'"]
TypeError(kind) ==
    [type |-> "TypeError",
     msg |-> "'" \o kind \o "' object cannot be converted to 'PyString'"]

\* PyModule::import(py, name)
PyModule_importLenient(mods, name) == PyOk(name)

PyModule_import(mods, name) ==
    IF name \in mods THEN PyOk(name) ELSE PyFail(ModuleNotFoundError(name))

\* module.getattr(name): builtin modules expose none of the contract's names.
PyAny_getattrLenient(as, mod, name) == PyOk(name)

PyAny_getattr(as, mod, name) ==
    IF mod = "polylog_core" /\ name \in as
    THEN PyOk(name)
    ELSE PyFail(AttributeError(mod, name))

\* .extract::<String>() of a returned object
extractMangled(obj) ==
    IF obj.kind = "str" THEN PyOk("'" \o obj.v \o "'") ELSE PyOk(obj.v)

extract(obj) ==
    IF obj.kind = "str" THEN PyOk(obj.v) ELSE PyFail(TypeError(obj.kind))

\* <PyErr as Display>::to_string: "<type name>: <str(value)>"
to_stringBare(e) == e.msg

to_string(e) == e.type \o ": " \o e.msg

\* ----------------------------------------------------------------- state
VARIABLES
    modules,      \* module names importable in the interpreter
    attrs,        \* attributes polylog_core exposes
    gil,          \* the thread holding the interpreter lock, or NoThread
    pc,           \* each thread's position
    cmd,          \* the command each thread was invoked with
    params,       \* its payload
    call,         \* arguments of the thread's call_python_module frame
    pyout,        \* what the external function did in this invocation
    pyres,        \* the PyResult the bridge returns
    result,       \* the Result the command returns to the shell
    pylog,        \* interpreter operations of this invocation, in order
    invocations,  \* command invocations so far
    bridgeCalls,  \* call_python_module calls so far
    trial,        \* comparison of the run_simulation copies: the inputs
    outcome       \* ... and what each copy returned

vars == <<modules, attrs, gil, pc, cmd, params, call, pyout, pyres, result,
          pylog, invocations, bridgeCalls, trial, outcome>>

envVars == <<modules, attrs>>
eqVars == <<trial, outcome>>

NoCall == [module_name |-> "", function_name |-> "", args |-> ""]

\* The copies of run_simulation in the repository.
Copies == {"legacy", "archive", "backup_bridge", "backup_main"}
NoTrial == [simulate |-> [p \in Payloads |-> NoOutcome], params |-> ""]

Environments == {Builtins, Builtins \cup {"polylog_core"}}

Init ==
    /\ modules \in Environments
    /\ attrs \in IF "polylog_core" \in modules THEN SUBSET AttrNames ELSE {{}}
    /\ gil = NoThread
    /\ pc = [t \in Threads |-> "idle"]
    /\ cmd = [t \in Threads |-> ""]
    /\ params = [t \in Threads |-> ""]
    /\ call = [t \in Threads |-> NoCall]
    /\ pyout = [t \in Threads |-> NoOutcome]
    /\ pyres = [t \in Threads |-> NoPyResult]
    /\ result = [t \in Threads |-> NoResult]
    /\ pylog = [t \in Threads |-> <<>>]
    /\ invocations = 0
    /\ bridgeCalls = 0
    /\ trial = NoTrial
    /\ outcome = [c \in Copies |-> NoResult]

\* ------------------------------------------------------------ dispatcher
\* The shell invokes a registered command on a worker thread.
Invoke(t) ==
    /\ pc[t] \in {"idle", "done"}
    /\ invocations < MaxInvocations
    /\ \E c \in Registered, p \in Payloads :
           /\ cmd' = [cmd EXCEPT ![t] = c]
           /\ params' = [params EXCEPT ![t] = p]
    /\ pc' = [pc EXCEPT ![t] = "command"]
    /\ call' = [call EXCEPT ![t] = NoCall]
    /\ pyout' = [pyout EXCEPT ![t] = NoOutcome]
    /\ pyres' = [pyres EXCEPT ![t] = NoPyResult]
    /\ result' = [result EXCEPT ![t] = NoResult]
    /\ pylog' = [pylog EXCEPT ![t] = <<>>]
    /\ invocations' = invocations + 1
    /\ UNCHANGED <<gil, bridgeCalls, envVars, eqVars>>

\* A command body enters call_python_module(module, function, &params).
EnterBridge(t, name, mod, fn) ==
    /\ pc[t] = "command"
    /\ cmd[t] = name
    /\ call' = [call EXCEPT ![t] =
                   [module_name |-> mod, function_name |-> fn, args |-> params[t]]]
    /\ bridgeCalls' = bridgeCalls + 1
    /\ pc' = [pc EXCEPT ![t] = "with_gil"]
    /\ UNCHANGED <<gil, cmd, params, pyout, pyres, result, pylog, invocations,
                   envVars, eqVars>>

run_simulation(t) == EnterBridge(t, "run_simulation", "polylog_core", "simulate")

get_unicode_symbols(t) ==
    EnterBridge(t, "get_unicode_symbols", "polylog_core", "get_unicode_symbols")

launch_polyformMisrouted(t) ==
    EnterBridge(t, "launch_polyform", "polylog_core", "simulate")

launch_polyform(t) ==
    EnterBridge(t, "launch_polyform", "polylog_core", "launch_polyform")

\* ---------------------------------------------------------------- bridge
Log(t, op) == pylog' = [pylog EXCEPT ![t] = Append(@, op)]

\* The closure ends with r: the PyResult is fixed, the lock is still held.
Finish(t, r) ==
    /\ pyres' = [pyres EXCEPT ![t] = r]
    /\ pc' = [pc EXCEPT ![t] = "drop_gil"]

\* Python::with_gil: block until the interpreter lock is free, take it.
with_gilUnguarded(t) ==
    /\ pc[t] = "with_gil"
    /\ gil' = t
    /\ pc' = [pc EXCEPT ![t] = "import"]
    /\ Log(t, <<"with_gil">>)
    /\ UNCHANGED <<cmd, params, call, pyout, pyres, result, invocations,
                   bridgeCalls, envVars, eqVars>>

with_gil(t) ==
    /\ pc[t] = "with_gil"
    /\ gil = NoThread
    /\ gil' = t
    /\ pc' = [pc EXCEPT ![t] = "import"]
    /\ Log(t, <<"with_gil">>)
    /\ UNCHANGED <<cmd, params, call, pyout, pyres, result, invocations,
                   bridgeCalls, envVars, eqVars>>

\* let module = PyModule::import(py, module_name)?;
import(t) ==
    /\ pc[t] = "import"
    /\ Log(t, <<"import", call[t].module_name>>)
    /\ LET r == PyModule_import(modules, call[t].module_name) IN
           IF r.tag = "Ok"
           THEN /\ pc' = [pc EXCEPT ![t] = "getattr"]
                /\ UNCHANGED pyres
           ELSE Finish(t, r)
    /\ UNCHANGED <<gil, cmd, params, call, pyout, result, invocations,
                   bridgeCalls, envVars, eqVars>>

\* let callable = module.getattr(function_name)?;
getattr(t) ==
    /\ pc[t] = "getattr"
    /\ Log(t, <<"getattr", call[t].function_name>>)
    /\ LET r == PyAny_getattr(attrs, call[t].module_name, call[t].function_name) IN
           IF r.tag = "Ok"
           THEN /\ pc' = [pc EXCEPT ![t] = "call1"]
                /\ UNCHANGED pyres
           ELSE Finish(t, r)
    /\ UNCHANGED <<gil, cmd, params, call, pyout, result, invocations,
                   bridgeCalls, envVars, eqVars>>

\* callable.call1((args,))? : the opaque function runs once.
call1(t) ==
    /\ pc[t] = "call1"
    /\ Log(t, <<"call", call[t].module_name, call[t].function_name, call[t].args>>)
    /\ \E o \in Outcomes :
           /\ pyout' = [pyout EXCEPT ![t] = o]
           /\ IF o.tag = "return"
              THEN /\ pc' = [pc EXCEPT ![t] = "extract"]
                   /\ UNCHANGED pyres
              ELSE Finish(t, PyFail(o.exc))
    /\ UNCHANGED <<gil, cmd, params, call, result, invocations, bridgeCalls,
                   envVars, eqVars>>

\* let result: String = ... .extract()?;  Ok(result)
extract_result(t) ==
    /\ pc[t] = "extract"
    /\ Log(t, <<"extract">>)
    /\ Finish(t, extract(pyout[t].obj))
    /\ UNCHANGED <<gil, cmd, params, call, pyout, result, invocations,
                   bridgeCalls, envVars, eqVars>>

\* with_gil returns: the lock guard is dropped, on every way out of the closure.
drop_gilOnOkOnly(t) ==
    /\ pc[t] = "drop_gil"
    /\ gil' = IF pyres[t].tag = "Ok" THEN NoThread ELSE gil
    /\ pc' = [pc EXCEPT ![t] = "map_err"]
    /\ UNCHANGED <<cmd, params, call, pyout, pyres, result, pylog, invocations,
                   bridgeCalls, envVars, eqVars>>

drop_gil(t) ==
    /\ pc[t] = "drop_gil"
    /\ gil' = NoThread
    /\ pc' = [pc EXCEPT ![t] = "map_err"]
    /\ UNCHANGED <<cmd, params, call, pyout, pyres, result, pylog, invocations,
                   bridgeCalls, envVars, eqVars>>

\* --------------------------------------------------- back in the command
\* .map_err(|e| e.to_string()): Ok passes through; formatting a PyErr takes
\* the interpreter lock again (PyErr's Display reads the exception object).
map_errRetry(t) ==
    /\ pc[t] = "map_err"
    /\ IF pyres[t].tag = "Ok"
       THEN /\ result' = [result EXCEPT ![t] = Ok(pyres[t].val)]
            /\ pc' = [pc EXCEPT ![t] = "done"]
            /\ UNCHANGED <<gil, bridgeCalls>>
       ELSE /\ bridgeCalls' = bridgeCalls + 1
            /\ pc' = [pc EXCEPT ![t] = "with_gil"]
            /\ UNCHANGED <<gil, result>>
    /\ UNCHANGED <<cmd, params, call, pyout, pyres, pylog, invocations,
                   envVars, eqVars>>

map_err(t) ==
    /\ pc[t] = "map_err"
    /\ IF pyres[t].tag = "Ok"
       THEN /\ result' = [result EXCEPT ![t] = Ok(pyres[t].val)]
            /\ pc' = [pc EXCEPT ![t] = "done"]
            /\ UNCHANGED gil
       ELSE /\ gil = NoThread
            /\ gil' = t
            /\ pc' = [pc EXCEPT ![t] = "to_string"]
            /\ UNCHANGED result
    /\ UNCHANGED <<cmd, params, call, pyout, pyres, pylog, invocations,
                   bridgeCalls, envVars, eqVars>>

\* The error is formatted, the lock released, Err(message) returned.
err_to_stringKeepsLock(t) ==
    /\ pc[t] = "to_string"
    /\ result' = [result EXCEPT ![t] = Err(to_string(pyres[t].err))]
    /\ pc' = [pc EXCEPT ![t] = "done"]
    /\ UNCHANGED <<gil, cmd, params, call, pyout, pyres, pylog, invocations,
                   bridgeCalls, envVars, eqVars>>

err_to_string(t) ==
    /\ pc[t] = "to_string"
    /\ result' = [result EXCEPT ![t] = Err(to_string(pyres[t].err))]
    /\ gil' = NoThread
    /\ pc' = [pc EXCEPT ![t] = "done"]
    /\ UNCHANGED <<cmd, params, call, pyout, pyres, pylog, invocations,
                   bridgeCalls, envVars, eqVars>>

Step(t) ==
    \/ run_simulation(t)
    \/ get_unicode_symbols(t)
    \/ launch_polyform(t)
    \/ with_gil(t)
    \/ import(t)
    \/ getattr(t)
    \/ call1(t)
    \/ extract_result(t)
    \/ drop_gil(t)
    \/ map_err(t)
    \/ err_to_string(t)

Next == \E t \in Threads : Invoke(t) \/ Step(t)

Spec == Init /\ [][Next]_vars

\* The lock is granted fairly and every step that can run does.
FairSpec ==
    /\ Spec
    /\ \A t \in Threads : WF_vars(Step(t))
    /\ \A t \in Threads : SF_vars(with_gil(t)) /\ SF_vars(map_err(t))

\* ------------------------------------ the copies of run_simulation compared
\* call_python_module as a function of the interpreter's state; `f` is what
\* the module's function does for each argument.
call_python_module(mods, as, f, module_name, function_name, args) ==
    LET module == PyModule_import(mods, module_name)
        callable == PyAny_getattr(as, module_name, function_name)
    IN  IF module.tag = "Err" THEN module
        ELSE IF callable.tag = "Err" THEN callable
        ELSE IF f[args].tag = "raise" THEN PyFail(f[args].exc)
        ELSE extract(f[args].obj)

\* obj.call_method1(name, (arg,)): attribute lookup, then the call.
call_method1(as, f, mod, name, arg) ==
    LET callable == PyAny_getattr(as, mod, name)
    IN  IF callable.tag = "Err" THEN callable
        ELSE IF f[arg].tag = "raise" THEN PyFail(f[arg].exc)
        ELSE [tag |-> "Ok", val |-> "", err |-> NoExc]

\* .map_err(|e| e.to_string()) on a PyResult<String>
map_err_to_string(r) ==
    IF r.tag = "Ok" THEN Ok(r.val) ELSE Err(to_string(r.err))

\* docs/archive/legacy_files/src-tauri/src/commands.rs
run_simulation_legacy(mods, as, f, p) ==
    map_err_to_string(call_python_module(mods, as, f, "polylog_core", "simulate", p))

\* archive/src-tauri-backup/src/commands.rs: imports sys first.
run_simulation_archive(mods, as, f, p) ==
    LET sys == PyModule_import(mods, "sys")
        polylog_module == PyModule_import(mods, "polylog_core")
        called == call_method1(as, f, "polylog_core", "simulate", p)
    IN  IF sys.tag = "Err" THEN map_err_to_string(sys)
        ELSE IF polylog_module.tag = "Err" THEN map_err_to_string(polylog_module)
        ELSE IF called.tag = "Err" THEN map_err_to_string(called)
        ELSE map_err_to_string(extract(f[p].obj))

\* src-tauri-backup/src/python_bridge.rs
run_simulation_backup_bridge(mods, as, f, p) ==
    LET polylog == PyModule_import(mods, "polylog_core")
        called == call_method1(as, f, "polylog_core", "simulate", p)
    IN  IF polylog.tag = "Err" THEN map_err_to_string(polylog)
        ELSE IF called.tag = "Err" THEN map_err_to_string(called)
        ELSE map_err_to_string(extract(f[p].obj))

\* src-tauri-backup/src/main.rs: format!("Simulating with: {}", params); the
\* plain String reaches the shell as a success.
run_simulation_backup_main(mods, as, f, p) == Ok("Simulating with: " \o p)

Trials == [simulate : [Payloads -> Outcomes], params : Payloads]

InitEq ==
    /\ modules \in Environments
    /\ attrs \in IF "polylog_core" \in modules THEN SUBSET AttrNames ELSE {{}}
    /\ gil = NoThread
    /\ pc = [t \in Threads |-> "idle"]
    /\ cmd = [t \in Threads |-> ""]
    /\ params = [t \in Threads |-> ""]
    /\ call = [t \in Threads |-> NoCall]
    /\ pyout = [t \in Threads |-> NoOutcome]
    /\ pyres = [t \in Threads |-> NoPyResult]
    /\ result = [t \in Threads |-> NoResult]
    /\ pylog = [t \in Threads |-> <<>>]
    /\ invocations = 0
    /\ bridgeCalls = 0
    /\ trial \in Trials
    /\ outcome = [c \in Copies |-> NoResult]

threadVars == <<gil, pc, cmd, params, call, pyout, pyres, result, pylog,
                invocations, bridgeCalls>>

Returns(c, r) ==
    /\ outcome[c] = NoResult
    /\ outcome' = [outcome EXCEPT ![c] = r]
    /\ UNCHANGED <<trial, envVars, threadVars>>

eval_legacy ==
    Returns("legacy",
            run_simulation_legacy(modules, attrs, trial.simulate, trial.params))

eval_archive ==
    Returns("archive",
            run_simulation_archive(modules, attrs, trial.simulate, trial.params))

eval_backup_bridge ==
    Returns("backup_bridge",
            run_simulation_backup_bridge(modules, attrs, trial.simulate, trial.params))

eval_backup_main ==
    Returns("backup_main",
            run_simulation_backup_main(modules, attrs, trial.simulate, trial.params))

NextEq == eval_legacy \/ eval_archive \/ eval_backup_bridge \/ eval_backup_main

SpecEq == InitEq /\ [][NextEq]_vars

\* ---------------------------------------------------------------- claims
\* Positions inside the closure with_gil runs: import, lookup, call, extraction.
Section == {"import", "getattr", "call1", "extract", "drop_gil"}

\* Positions after call_python_module has returned to the command.
Returned == {"map_err", "to_string", "done"}

OpName(t, i) == pylog[t][i][1]
CallCount(t) == Cardinality({i \in 1..Len(pylog[t]) : OpName(t, i) = "call"})
BridgeEntries(t) == Cardinality({i \in 1..Len(pylog[t]) : OpName(t, i) = "with_gil"})

\* The function the interface contract names for each command.
ContractFunction(c) ==
    CASE c = "run_simulation" -> "simulate"
      [] c = "get_unicode_symbols" -> "get_unicode_symbols"
      [] c = "launch_polyform" -> "launch_polyform"
      [] OTHER -> "?"

\* C1: at most one invocation is inside the foreign-call section at any time,
\* and every thread inside it holds the interpreter lock.
C1_OneCallInsideInterpreter ==
    /\ \A t \in Threads : pc[t] \in Section => gil = t
    /\ Cardinality({t \in Threads : pc[t] \in Section}) <= 1

\* A second command waits at with_gil while the first is inside the call.
C1_Witness ==
    \E t, u \in Threads : t # u /\ pc[t] = "call1" /\ pc[u] = "with_gil"

\* C2: once call_python_module has returned, with Ok or with the Err of any
\* step, the returning thread does not hold the interpreter lock.
C2_LockReleasedOnEveryExit ==
    \A t \in Threads : pc[t] = "map_err" => gil # t

\* A call failed, and another thread has entered the interpreter since.
C2_Witness ==
    \E t, u \in Threads :
        /\ t # u
        /\ pc[t] = "map_err"
        /\ pyres[t].tag = "Err"
        /\ gil = u
        /\ pc[u] = "call1"

\* C3: with polylog_core importable, simulate exposed and returning a string,
\* run_simulation(payload) called simulate with the payload unmodified and
\* returns Ok of exactly the returned string.
C3_RunSimulationOk ==
    \A t \in Threads :
        (/\ pc[t] = "done"
         /\ cmd[t] = "run_simulation"
         /\ "polylog_core" \in modules
         /\ "simulate" \in attrs)
        => /\ CallCount(t) = 1
           /\ pylog[t][4] = <<"call", "polylog_core", "simulate", params[t]>>
           /\ (pyout[t].tag = "return" /\ pyout[t].obj.kind = "str"
               => result[t] = Ok(pyout[t].obj.v))

C3_Witness ==
    \E t \in Threads :
        /\ pc[t] = "done"
        /\ cmd[t] = "run_simulation"
        /\ params[t] = "test_params"
        /\ pyout[t].tag = "return"
        /\ result[t] = Ok("result")

\* C4: when the module's function raises, run_simulation returns Err(message),
\* message being the non-empty text "<type>: <str(value)>" of the raised error,
\* never Ok.
C4_RaiseBecomesErr ==
    \A t \in Threads :
        (pc[t] = "done" /\ cmd[t] = "run_simulation" /\ pyout[t].tag = "raise")
        => /\ result[t].tag = "Err"
           /\ result[t].v = pyout[t].exc.type \o ": " \o pyout[t].exc.msg
           /\ Len(result[t].v) > 0

C4_Witness ==
    \E t \in Threads :
        /\ pc[t] = "done"
        /\ cmd[t] = "run_simulation"
        /\ params[t] = "invalid_params"
        /\ pyout[t].tag = "raise"
        /\ result[t].tag = "Err"

\* C5: with polylog_core absent, every command invocation comes back with the
\* module-not-found Err, for every payload, and the function is never invoked;
\* every invocation does come back.
ModuleAbsentSafe ==
    \A t \in Threads :
        "polylog_core" \notin modules
        => /\ CallCount(t) = 0
           /\ pyout[t] = NoOutcome
           /\ pc[t] \in Returned
              => pyres[t] = PyFail(ModuleNotFoundError("polylog_core"))
           /\ pc[t] = "done"
              => result[t] =
                     Err("ModuleNotFoundError: No module named 'polylog_core'")

C5_ModuleAbsent ==
    /\ []ModuleAbsentSafe
    /\ \A t \in Threads :
           ("polylog_core" \notin modules /\ pc[t] = "command")
               ~> (pc[t] = "done" /\ result[t].tag = "Err")

C5_Witness ==
    \E t \in Threads :
        /\ "polylog_core" \notin modules
        /\ pc[t] = "done"
        /\ cmd[t] = "get_unicode_symbols"
        /\ result[t].tag = "Err"

\* C6: every command invocation enters the bridge exactly once and the bridge
\* calls the external function at most once, and once whenever the function
\* can be reached (no retry, no cached result): n invocations, n bridge calls.
C6_OneBridgeCallPerInvocation ==
    /\ bridgeCalls = invocations - Cardinality({t \in Threads : pc[t] = "command"})
    /\ \A t \in Threads :
           /\ CallCount(t) <= 1
           /\ BridgeEntries(t) <= 1
           /\ pc[t] \in Section \cup Returned => BridgeEntries(t) = 1
           /\ (/\ pc[t] \in Returned
               /\ call[t].module_name \in modules
               /\ call[t].function_name \in attrs) => CallCount(t) = 1

\* Two invocations, the first of them failed, and two bridge calls.
C6_Witness ==
    /\ invocations = 2
    /\ bridgeCalls = 2
    /\ \E t \in Threads : pc[t] = "done" /\ result[t].tag = "Err"
    /\ \A t \in Threads : pc[t] \in {"idle", "done"}

\* C7: each registered command reaches the function the contract names, in
\* polylog_core, with its payload as the only argument, and nothing else.
C7_Routing ==
    \A t \in Threads :
        /\ cmd[t] # "" => cmd[t] \in Registered
        /\ call[t] # NoCall
           => call[t] = [module_name |-> "polylog_core",
                         function_name |-> ContractFunction(cmd[t]),
                         args |-> params[t]]
        /\ \A i \in 1..Len(pylog[t]) :
               /\ OpName(t, i) = "import" => pylog[t][i] = <<"import", "polylog_core">>
               /\ OpName(t, i) = "getattr"
                  => pylog[t][i] = <<"getattr", ContractFunction(cmd[t])>>
               /\ OpName(t, i) = "call"
                  => pylog[t][i] = <<"call", "polylog_core",
                                     ContractFunction(cmd[t]), params[t]>>

C7_Witness ==
    \E t \in Threads :
        /\ cmd[t] = "launch_polyform"
        /\ pc[t] = "done"
        /\ CallCount(t) = 1
        /\ pylog[t][4] = <<"call", "polylog_core", "launch_polyform", params[t]>>

\* C8: all definitions of run_simulation return the same Ok/Err outcome with
\* the same string, for the same payload and the same module behaviour.
C8_CopiesAgree ==
    \A c, d \in Copies :
        outcome[c] # NoResult /\ outcome[d] # NoResult => outcome[c] = outcome[d]

\* C9: a bridge call takes the lock, imports, looks the function up, calls it
\* and extracts the result, in that order; the first failing step ends the
\* call with that step's Err and no later step runs; the outcome is Ok or Err.
StepOrder == <<"with_gil", "import", "getattr", "call", "extract">>

Ended(t) == pc[t] \in {"drop_gil"} \cup Returned

C9_StepsInOrderFirstFailureEnds ==
    \A t \in Threads :
        /\ Len(pylog[t]) <= Len(StepOrder)
        /\ \A i \in 1..Len(pylog[t]) : OpName(t, i) = StepOrder[i]
        /\ Ended(t) =>
              /\ pyres[t].tag \in {"Ok", "Err"}
              /\ IF call[t].module_name \notin modules
                 THEN /\ Len(pylog[t]) = 2
                      /\ pyres[t].tag = "Err"
                      /\ pyres[t].err.type = "ModuleNotFoundError"
                 ELSE IF call[t].function_name \notin attrs
                 THEN /\ Len(pylog[t]) = 3
                      /\ pyres[t].tag = "Err"
                      /\ pyres[t].err.type = "AttributeError"
                 ELSE IF pyout[t].tag = "raise"
                 THEN /\ Len(pylog[t]) = 4
                      /\ pyres[t] = PyFail(pyout[t].exc)
                 ELSE IF pyout[t].obj.kind # "str"
                 THEN /\ Len(pylog[t]) = 5
                      /\ CallCount(t) = 1
                      /\ pyres[t].tag = "Err"
                      /\ pyres[t].err.type = "TypeError"
                 ELSE /\ Len(pylog[t]) = 5
                      /\ pyres[t] = PyOk(pyout[t].obj.v)
        /\ pc[t] = "done" => result[t].tag \in {"Ok", "Err"}

\* A missing attribute ended one call before the function ran, and a return
\* value that is no string ended another after it ran.
C9_Witness ==
    \E t, u \in Threads :
        /\ pc[t] = "done" /\ pc[u] = "done"
        /\ pyres[t].err.type = "AttributeError" /\ CallCount(t) = 0
        /\ pyres[u].err.type = "TypeError" /\ CallCount(u) = 1

\* C10: with the lock granted fairly and every started call returning or
\* raising, every command invocation eventually returns Ok or Err.
C10_EveryInvocationReturns ==
    \A t \in Threads :
        (pc[t] = "command") ~> (pc[t] = "done" /\ result[t].tag \in {"Ok", "Err"})

\* Both threads are queued behind the lock's holder or holding it, one of
\* them about to format an error, which needs the lock again.
C10_Witness ==
    \E t, u \in Threads :
        /\ t # u
        /\ pc[t] = "map_err" /\ pyres[t].tag = "Err"
        /\ pc[u] \in Section
        /\ gil = u

====
